---- MODULE Spec2Model ----
(***************************************************************************)
(* Bowling-delivery analysis pipeline of src/components/VideoAnalyzer.tsx. *)
(*                                                                         *)
(* The pipeline is a set of pure functions (mapKeypointsToBallPosition,    *)
(* smoothSeries, enrichFrames).  A behaviour of Spec is one call: Init     *)
(* draws the function and its arguments, the matching action applies it    *)
(* and stores the returned value in ret.                                   *)
(*                                                                         *)
(* UISpec is the page around the pipeline: HomePage's state (status,       *)
(* result, selectedKeyFrame), VideoAnalyzer's error and framesRef, the     *)
(* shared <video> element and the handleFile calls in flight, each stopped *)
(* at one of its awaits.                                                   *)
(*                                                                         *)
(* Numbers.  JavaScript arrays are functions over 0..n-1.  Lengths are     *)
(* hundredths of a metre (20.12 m is 2012), times are milliseconds, seam   *)
(* angles are tenths of a degree, speeds are km/h.  A quotient that is not *)
(* an integer is kept exactly: a ratio [n, d] for positions, and for the   *)
(* smoothed series a fixed-point numeral whose digit 0 is the integer part *)
(* and whose digits 1..k are fractional digits in the base of the          *)
(* smoothing factor's denominator.  Arithmetic is that of the reals; the   *)
(* rounding of IEEE doubles is not modelled.                               *)
(***************************************************************************)
EXTENDS Integers, Sequences, FiniteSets, TLC

VARIABLES call, ret,
          status, pageResult, selectedKeyFrame,
          error, framesRef, video, uploads

uiVars == <<status, pageResult, selectedKeyFrame, error, framesRef, video, uploads>>

vars == <<call, ret, uiVars>>

\* an absent value (null, undefined) and a present one
None == <<>>

Some(v) == <<v>>

\* ------------------------------------------------------------------ bounds
MaxN == 5
MaxSeries == 3
MaxKeypoints == 2
MaxUploads == 2
MaxFrames == 2

\* --------------------------------------------------------------- constants
PITCH_LENGTH_METERS == 2012
DEFAULT_FACTOR == <<7, 20>>
SEAM_SMOOTHING == <<1, 4>>

\* ------------------------------------------------------------------ arrays
length(a) == Cardinality(DOMAIN a)

push(a, v) == [i \in 0..length(a) |-> IF i < length(a) THEN a[i] ELSE v]

Min(a, b) == IF a <= b THEN a ELSE b

Max(a, b) == IF a >= b THEN a ELSE b

\* ------------------------------------------------------------------ ratios
Rat(n, d) == [n |-> n, d |-> d]

RatEq(a, b) == a.n * b.d = b.n * a.d

RatLeq(a, b) == a.n * b.d <= b.n * a.d

RatMax(a, b) == IF RatLeq(b, a) THEN a ELSE b

\* a - b for two ratios; the depths of one call share their denominator
RatSub(a, b) ==
    IF a.d = b.d THEN Rat(a.n - b.n, a.d)
    ELSE Rat(a.n * b.d - b.n * a.d, a.d * b.d)

\* ------------------------------------------------------ fixed-point numerals
\* the integer v with k fractional digits
FxInt(v, k) == [j \in 0..k |-> IF j = 0 THEN v ELSE 0]

FxIsZero(a) == \A j \in DOMAIN a : a[j] = 0

\* a < b, both with the same number of digits
FxLess(a, b) ==
    \E j \in DOMAIN a : a[j] < b[j] /\ \A i \in 0..(j - 1) : a[i] = b[i]

RECURSIVE FxCarry(_, _, _)
FxCarry(u, j, base) ==
    IF j = 0 THEN u
    ELSE FxCarry([u EXCEPT ![j] = u[j] % base,
                           ![j - 1] = u[j - 1] + (u[j] \div base)],
                 j - 1, base)

\* FxBlend with the two weights exchanged: prev * factor + value * (1 - factor)
FxBlendSwapped(prev, value, fn, fd) ==
    LET k == length(prev) - 1
        u == [j \in 0..k |->
                IF j = 0 THEN 0
                ELSE IF j = 1 THEN prev[0] * fn + value * (fd - fn)
                ELSE prev[j - 1] * fn]
    IN  FxCarry(u, k, fd)

\* prev * (1 - factor) + value * factor for factor = fn/fd: the numerator
\* prev * (fd - fn) + value * fn is formed digit by digit, the division by
\* the base fd shifts every digit one place to the right.  prev's last
\* digit is 0 whenever the series leaves room for the shift (element i of
\* a series has at most i fractional digits).
FxBlend(prev, value, fn, fd) ==
    LET k == length(prev) - 1
        u == [j \in 0..k |->
                IF j = 0 THEN 0
                ELSE IF j = 1 THEN prev[0] * (fd - fn) + value * fn
                ELSE prev[j - 1] * (fd - fn)]
    IN  FxCarry(u, k, fd)

\* --------------------------------------------------------------- smoothSeries
RECURSIVE smoothFrom(_, _, _, _)
smoothFrom(series, factor, output, idx) ==
    IF idx = length(series) THEN output
    ELSE smoothFrom(series, factor,
            push(output,
                 IF idx = 0 THEN FxInt(series[0], length(series) - 1)
                 ELSE FxBlend(output[idx - 1], series[idx], factor[1], factor[2])),
            idx + 1)

smoothSeries(series, factor) == smoothFrom(series, factor, <<>>, 0)

\* ------------------------------------------------------------- enrichFrames
\* Fallback with the run-up default of the non-empty path (22 for 24)
FallbackRunup22 ==
    LET fallback == [time |-> 0, phase |-> "Run-Up",
                     ballPosition |-> <<0, 150, Rat(0, 1)>>,
                     seamAngle |-> FxInt(150, 0), speedKph |-> FxInt(115, 0),
                     releaseHeight |-> 186, keypoints |-> <<>>]
    IN  [frames |-> [i \in 0..0 |-> fallback],
         trajectory |-> [i \in 0..0 |-> <<0, 150, Rat(0, 1)>>],
         keyMoments |-> [releaseFrame |-> 0, pitchFrame |-> 0, impactFrame |-> 0],
         summary |-> [releaseSpeedKph |-> FxInt(115, 0),
                      seamAngle |-> FxInt(150, 0),
                      releaseHeight |-> 186,
                      predictedImpactMeters |-> Rat(540, 1),
                      runupVelocityKph |-> FxInt(22, 0)]]

\* The record returned for an empty frame list.
Fallback ==
    LET fallback == [time |-> 0, phase |-> "Run-Up",
                     ballPosition |-> <<0, 150, Rat(0, 1)>>,
                     seamAngle |-> FxInt(150, 0), speedKph |-> FxInt(115, 0),
                     releaseHeight |-> 186, keypoints |-> <<>>]
    IN  [frames |-> [i \in 0..0 |-> fallback],
         trajectory |-> [i \in 0..0 |-> <<0, 150, Rat(0, 1)>>],
         keyMoments |-> [releaseFrame |-> 0, pitchFrame |-> 0, impactFrame |-> 0],
         summary |-> [releaseSpeedKph |-> FxInt(115, 0),
                      seamAngle |-> FxInt(150, 0),
                      releaseHeight |-> 186,
                      predictedImpactMeters |-> Rat(540, 1),
                      runupVelocityKph |-> FxInt(24, 0)]]

\* depthOf with progress idx / N
depthOfByCount(idx, N) == Rat(idx * PITCH_LENGTH_METERS, N)

\* depth of frame idx: idx / max(N - 1, 1) * PITCH_LENGTH_METERS
depthOf(idx, N) == Rat(idx * PITCH_LENGTH_METERS, Max(N - 1, 1))

\* positions[idx]; a position is <<lateral, vertical, depth>>, so the
\* source's ballPosition[0], [1], [2] are components 1, 2, 3 here
positionAt(frames, idx) ==
    <<frames[idx].ballPosition[1], frames[idx].ballPosition[2],
      depthOf(idx, length(frames))>>

RECURSIVE ISqrtIn(_, _, _)
ISqrtIn(q, lo, hi) ==
    IF lo = hi THEN lo
    ELSE LET mid == (lo + hi + 1) \div 2
         IN  IF mid * mid <= q THEN ISqrtIn(q, mid, hi)
             ELSE ISqrtIn(q, lo, mid - 1)

\* floor(sqrt(q))
ISqrt(q) == ISqrtIn(q, 0, 46340)

\* floor(72 * sqrt(q)), found as 72 * s + r from s = floor(sqrt(q)):
\* (72 s + r)^2 <= 5184 q  iff  144 s r + r^2 <= 5184 (q - s^2)
FloorSqrtTimes72(q) ==
    LET s == ISqrt(q)
        rest == 5184 * (q - s * s)
        r == CHOOSE c \in 0..71 :
                /\ 144 * s * c + c * c <= rest
                /\ 144 * s * (c + 1) + (c + 1) * (c + 1) > rest
    IN  72 * s + r

\* Math.round(sqrt(q) / dt * 3.6) for a squared distance q in units of
\* (cm / m)^2 and dt in ms: with z = 36 sqrt(q) / (m dt) km/h,
\* round(z) = floor((72 sqrt(q) + m dt) / (2 m dt))
roundKph(q, m, dt) == (FloorSqrtTimes72(q) + m * dt) \div (2 * m * dt)

\* speedAt over the lateral and vertical displacement alone
speedAtPlanar(frames, positions, idx) ==
    IF idx = 0 THEN 0
    ELSE LET prev == positions[idx - 1]
             curr == positions[idx]
             gap == frames[idx].time - frames[idx - 1].time
             dt == IF gap = 0 THEN 16 ELSE gap
             dx == curr[1] - prev[1]
             dy == curr[2] - prev[2]
         IN  roundKph(dx * dx + dy * dy, 1, dt)

\* speeds[idx]
speedAt(frames, positions, idx) ==
    IF idx = 0 THEN 0
    ELSE LET prev == positions[idx - 1]
             curr == positions[idx]
             gap == frames[idx].time - frames[idx - 1].time
             dt == IF gap = 0 THEN 16 ELSE gap
             dx == curr[1] - prev[1]
             dy == curr[2] - prev[2]
             dz == RatSub(curr[3], prev[3])
             m == dz.d
         IN  roundKph((dx * m) * (dx * m) + (dy * m) * (dy * m) + dz.n * dz.n,
                      m, dt)

\* reduceRelease with >= for >: the last frame reaching the maximum
RECURSIVE reduceReleaseLast(_, _, _)
reduceReleaseLast(smoothedSpeeds, acc, idx) ==
    IF idx = length(smoothedSpeeds) THEN acc
    ELSE reduceReleaseLast(smoothedSpeeds,
            IF FxLess(smoothedSpeeds[idx], smoothedSpeeds[acc]) THEN acc ELSE idx,
            idx + 1)

\* smoothedSpeeds.reduce((acc, speed, idx) =>
\*     speed > smoothedSpeeds[acc] ? idx : acc, seed), from idx on
RECURSIVE reduceRelease(_, _, _)
reduceRelease(smoothedSpeeds, acc, idx) ==
    IF idx = length(smoothedSpeeds) THEN acc
    ELSE reduceRelease(smoothedSpeeds,
            IF FxLess(smoothedSpeeds[acc], smoothedSpeeds[idx]) THEN idx ELSE acc,
            idx + 1)

\* Math.floor(n * 0.4)
releaseSeed(n) == (n * 4) \div 10

\* releaseFrameOf visiting only the seed index and the frames after it
releaseFrameFromSeed(smoothedSpeeds) ==
    reduceRelease(smoothedSpeeds, releaseSeed(length(smoothedSpeeds)),
                  releaseSeed(length(smoothedSpeeds)))

releaseFrameOf(smoothedSpeeds) ==
    reduceRelease(smoothedSpeeds, releaseSeed(length(smoothedSpeeds)), 0)

\* pitchFrameOf without the clamp to the last frame
pitchFrameUnclamped(n, releaseFrame) == releaseFrame + (n \div 4)

pitchFrameOf(n, releaseFrame) == Min(n - 1, releaseFrame + (n \div 4))

impactFrameOf(n, pitchFrame) == Min(n - 1, pitchFrame + ((n * 2) \div 10))

\* phaseOf with idx <= releaseFrame for Load-Up: no frame is the Release
phaseOfNoRelease(idx, releaseFrame, pitchFrame, impactFrame) ==
    IF 2 * idx < releaseFrame THEN "Run-Up"
    ELSE IF idx <= releaseFrame THEN "Load-Up"
    ELSE IF idx = releaseFrame THEN "Release"
    ELSE IF idx <= pitchFrame THEN "Pitch"
    ELSE IF idx <= impactFrame THEN "Impact"
    ELSE "Follow-Through"

phaseOf(idx, releaseFrame, pitchFrame, impactFrame) ==
    IF 2 * idx < releaseFrame THEN "Run-Up"
    ELSE IF idx < releaseFrame THEN "Load-Up"
    ELSE IF idx = releaseFrame THEN "Release"
    ELSE IF idx <= pitchFrame THEN "Pitch"
    ELSE IF idx <= impactFrame THEN "Impact"
    ELSE "Follow-Through"

\* orDefault without the fallback
orDefaultNever(value, fallback) == value

\* value || fallback for a smoothed value
orDefault(value, fallback) ==
    IF FxIsZero(value) THEN FxInt(fallback, length(value) - 1) ELSE value

releaseSpeedKphOf(smoothedSpeeds, releaseFrame) ==
    orDefault(smoothedSpeeds[releaseFrame], 122)

runupVelocityKphOf(smoothedSpeeds, releaseFrame) ==
    orDefault(smoothedSpeeds[releaseFrame \div 2], 22)

predictedImpactMetersOf(positions, impactFrame) ==
    RatMax(Rat(0, 1), RatSub(Rat(PITCH_LENGTH_METERS, 1), positions[impactFrame][3]))

\* enrichedFrame keeping the input frame's ballPosition (no depth assigned)
enrichedFrameOldPosition(frame, phase, position, seamAngle, speedKph) ==
    [time |-> frame.time,
     phase |-> phase,
     ballPosition |-> frame.ballPosition,
     seamAngle |-> seamAngle,
     speedKph |-> speedKph,
     releaseHeight |-> frame.ballPosition[2],
     keypoints |-> frame.keypoints]

\* one element of enrichedFrames: the input frame with its phase, position,
\* seam angle and speed replaced, and releaseHeight its own vertical position
enrichedFrame(frame, phase, position, seamAngle, speedKph) ==
    [time |-> frame.time,
     phase |-> phase,
     ballPosition |-> position,
     seamAngle |-> seamAngle,
     speedKph |-> speedKph,
     releaseHeight |-> frame.ballPosition[2],
     keypoints |-> frame.keypoints]

positionsOf(frames) ==
    [idx \in 0..(length(frames) - 1) |-> positionAt(frames, idx)]

speedsOf(frames) ==
    LET positions == positionsOf(frames)
    IN  [idx \in 0..(length(frames) - 1) |-> speedAt(frames, positions, idx)]

enrichFrames(frames) ==
    IF length(frames) = 0 THEN Fallback
    ELSE
    LET n == length(frames)
        positions == positionsOf(frames)
        speeds == speedsOf(frames)
        smoothedSpeeds == smoothSeries(speeds, DEFAULT_FACTOR)
        seamAngles == smoothSeries([idx \in 0..(n - 1) |-> frames[idx].seamAngle],
                                   SEAM_SMOOTHING)
        releaseFrame == releaseFrameOf(smoothedSpeeds)
        pitchFrame == pitchFrameOf(n, releaseFrame)
        impactFrame == impactFrameOf(n, pitchFrame)
        enrichedFrames ==
            [idx \in 0..(n - 1) |->
                enrichedFrame(frames[idx],
                              phaseOf(idx, releaseFrame, pitchFrame, impactFrame),
                              positions[idx], seamAngles[idx], smoothedSpeeds[idx])]
    IN  [frames |-> enrichedFrames,
         trajectory |-> positions,
         keyMoments |-> [releaseFrame |-> releaseFrame,
                         pitchFrame |-> pitchFrame,
                         impactFrame |-> impactFrame],
         summary |-> [releaseSpeedKph |-> releaseSpeedKphOf(smoothedSpeeds, releaseFrame),
                      seamAngle |-> orDefault(seamAngles[releaseFrame], 140),
                      releaseHeight |-> enrichedFrames[releaseFrame].releaseHeight,
                      predictedImpactMeters |-> predictedImpactMetersOf(positions, impactFrame),
                      runupVelocityKph |-> runupVelocityKphOf(smoothedSpeeds, releaseFrame)]]

\* ------------------------------------------------- mapKeypointsToBallPosition
\* keypoints.find((kp) => kp.name === name): the first such keypoint, if any
find(keypoints, name) ==
    IF \E i \in DOMAIN keypoints : keypoints[i].name = name
    THEN Some(keypoints[CHOOSE i \in DOMAIN keypoints :
                           /\ keypoints[i].name = name
                           /\ \A j \in 0..(i - 1) : keypoints[j].name # name])
    ELSE None

\* a ?? b
orElse(a, b) == IF a # None THEN a ELSE b

\* wristOf preferring the left wrist
wristOfLeftFirst(keypoints) ==
    orElse(find(keypoints, "left_wrist"),
           orElse(find(keypoints, "right_wrist"),
                  IF length(keypoints) > 0 THEN Some(keypoints[0]) ELSE None))

wristOf(keypoints) ==
    orElse(find(keypoints, "right_wrist"),
           orElse(find(keypoints, "left_wrist"),
                  IF length(keypoints) > 0 THEN Some(keypoints[0]) ELSE None))

\* ((wrist.x ?? width / 2) / width - 0.5) * 3.6, in cm
lateralOf(wrist, width) ==
    IF wrist.x = None THEN Rat(0, 1)
    ELSE Rat((2 * wrist.x[1] - width) * 180, width)

\* Math.max(0.4, (1 - (wrist.y ?? height * 0.6) / height) * 2.6), in cm
verticalOf(wrist, height) ==
    RatMax(Rat(40, 1),
           IF wrist.y = None THEN Rat(104, 1)
           ELSE Rat((height - wrist.y[1]) * 260, height))

mapKeypointsToBallPosition(width, height, keypoints) ==
    LET wrist == wristOf(keypoints)
    IN  IF wrist = None THEN <<Rat(0, 1), Rat(120, 1), Rat(0, 1)>>
        ELSE <<lateralOf(wrist[1], width), verticalOf(wrist[1], height), Rat(0, 1)>>

\* ------------------------------------------------------------------ inputs
\* Frames as samplePosesFromVideo builds them: positions on the centimetre
\* grid inside the range of mapKeypointsToBallPosition, timestamps that
\* never decrease.
SamplePoints ==
    { [ballPosition |-> <<0, 150, Rat(0, 1)>>, seamAngle |-> 120],
      [ballPosition |-> <<180, 40, Rat(0, 1)>>, seamAngle |-> -453] }

\* time between two consecutive frames, in ms
SampleGaps == {0, 100, 100000}

RECURSIVE timeAt(_, _)
timeAt(gaps, idx) == IF idx = 0 THEN 0 ELSE timeAt(gaps, idx - 1) + gaps[idx]

frameOf(point, time) ==
    [time |-> time, phase |-> "Run-Up", ballPosition |-> point.ballPosition,
     seamAngle |-> point.seamAngle, speedKph |-> 0,
     releaseHeight |-> Max(point.ballPosition[2], 120), keypoints |-> <<>>]

FramesOfLength(n) ==
    { [idx \in 0..(n - 1) |-> frameOf(points[idx], timeAt(gaps, idx))] :
        points \in [0..(n - 1) -> SamplePoints], gaps \in [1..(n - 1) -> SampleGaps] }

\* ten frames with one position, 0.1 s apart
UniformPositions == { <<x, y, Rat(0, 1)>> : x \in {-180, -90, 0, 90, 180}, y \in {40, 150, 260} }

UniformFrames ==
    { [idx \in 0..9 |-> frameOf([ballPosition |-> p, seamAngle |-> 120], idx * 100)] :
        p \in UniformPositions }

EnrichCalls ==
    { [fn |-> "enrichFrames", frames |-> f] :
        f \in UNION { FramesOfLength(n) : n \in 0..MaxN } \cup UniformFrames }

SeriesValues == {-5, 0, 8}

SmoothCalls ==
    { [fn |-> "smoothSeries", series |-> s, factor |-> f] :
        s \in UNION { [0..(n - 1) -> SeriesValues] : n \in 0..MaxSeries },
        f \in {<<1, 1>>, DEFAULT_FACTOR, SEAM_SMOOTHING} }

Keypoints ==
    { [name |-> nm, x |-> c[1], y |-> c[2]] :
        nm \in {"right_wrist", "left_wrist", "nose"},
        c \in { <<Some(640), Some(360)>>, <<Some(320), Some(700)>>, <<None, None>> } }

MapCalls ==
    { [fn |-> "mapKeypointsToBallPosition", width |-> d[1], height |-> d[2],
       keypoints |-> k] :
        d \in { <<1280, 720>>, <<640, 480>> },
        k \in UNION { [0..(n - 1) -> Keypoints] : n \in 0..MaxKeypoints } }

\* ---------------------------------------------------------------- the page
\* A clip the user can pick: one the browser plays ("ok", sampled into
\* `frames` frames), one whose metadata loads but whose seeks never finish
\* ("stall"), one the browser cannot load at all ("corrupt").
Files ==
    { [kind |-> "ok", frames |-> n] : n \in 1..MaxFrames }
        \cup { [kind |-> "stall", frames |-> 1], [kind |-> "corrupt", frames |-> 0] }

Slots == 1..MaxUploads

FreeSlot == [pc |-> "free", frames |-> 0, k |-> 0]

\* the state after the first render: useState("idle"), useState(null),
\* useState(0) in HomePage; useState(null), useRef([]) in VideoAnalyzer;
\* element tells whether videoRef.current holds the <video>
PageMounted(element) ==
    /\ status = "idle"
    /\ pageResult = None
    /\ selectedKeyFrame = 0
    /\ error = None
    /\ framesRef = 0
    /\ video = [element |-> element, src |-> None, loading |-> FALSE,
                ready |-> FALSE, seeking |-> FALSE]
    /\ uploads = [u \in Slots |-> FreeSlot]

\* the catch block of handleFile, ending the call in slot u
catch(u, message) ==
    /\ error' = Some(message)
    /\ status' = "error"
    /\ uploads' = [uploads EXCEPT ![u] = FreeSlot]

\* video.currentTime = t: a seek starts when the element has its metadata
seek(v) == [v EXCEPT !.seeking = v.ready]

\* the frames samplePosesFromVideo returns for n sampled instants
sampledFrames(n) ==
    [idx \in 0..(n - 1) |->
        frameOf([ballPosition |-> <<0, 150, Rat(0, 1)>>, seamAngle |-> 120], idx * 100)]

\* frames.length of enrichFrames(frames), by the number of sampled frames
analysisLength ==
    [n \in 1..MaxFrames |-> length(enrichFrames(sampledFrames(n)).frames)]

\* handleFile up to its first await: the input's onChange with a file
HandleFile(f) ==
    /\ \E u \in Slots : uploads[u].pc = "free"
    /\ LET u == CHOOSE s \in Slots :
                    uploads[s].pc = "free" /\ \A t \in Slots : uploads[t].pc = "free" => s <= t
       IN  IF ~video.element
           THEN \* reject(new Error("Video element missing.")), caught at once
                /\ error' = Some("Video element missing.")
                /\ status' = "error"
                /\ UNCHANGED <<video, uploads>>
           ELSE /\ status' = "loading-model"
                /\ error' = None
                /\ video' = [video EXCEPT !.src = Some(f), !.loading = TRUE,
                                          !.ready = FALSE, !.seeking = FALSE]
                /\ uploads' = [uploads EXCEPT ![u] = [pc |-> "awaitMetadata", frames |-> 0, k |-> 0]]
    /\ UNCHANGED <<call, ret, pageResult, selectedKeyFrame, framesRef>>

\* the element fires 'loadedmetadata': every listener still registered runs
LoadedMetadata ==
    /\ video.loading
    /\ video.src[1].kind # "corrupt"
    /\ video' = [video EXCEPT !.loading = FALSE, !.ready = TRUE]
    /\ uploads' = [u \in Slots |->
                    IF uploads[u].pc = "awaitMetadata"
                    THEN [uploads[u] EXCEPT !.pc = "awaitDetector"]
                    ELSE uploads[u]]
    /\ UNCHANGED <<call, ret, status, pageResult, selectedKeyFrame, error, framesRef>>

\* the element fires 'error' for a clip it cannot load: nothing listens
VideoError ==
    /\ video.loading
    /\ video.src[1].kind = "corrupt"
    /\ video' = [video EXCEPT !.loading = FALSE]
    /\ UNCHANGED <<call, ret, status, pageResult, selectedKeyFrame, error, framesRef, uploads>>

\* loadDetector() resolves: handleFile runs on to the first await of
\* samplePosesFromVideo; context tells whether canvas.getContext gave one
DetectorLoaded(u, context) ==
    /\ uploads[u].pc = "awaitDetector"
    /\ IF ~video.element
       THEN /\ catch(u, "Video element not ready.")
            /\ UNCHANGED video
       ELSE IF ~context
       THEN /\ catch(u, "Canvas rendering context unavailable.")
            /\ video' = seek(video)
       ELSE /\ status' = "processing"
            /\ video' = seek(video)
            /\ uploads' = [uploads EXCEPT ![u] =
                    [pc |-> "awaitSeeked",
                     frames |-> IF video.ready /\ video.src[1].frames > 0
                                THEN video.src[1].frames ELSE MaxFrames,
                     k |-> 0]]
            /\ UNCHANGED error
    /\ UNCHANGED <<call, ret, pageResult, selectedKeyFrame, framesRef>>

\* loadDetector() rejects
DetectorFailed(u) ==
    /\ uploads[u].pc = "awaitDetector"
    /\ catch(u, "Analysis failed. Please try a different clip.")
    /\ UNCHANGED <<call, ret, pageResult, selectedKeyFrame, framesRef, video>>

\* the element fires 'seeked': every handleSeeked still registered runs
Seeked ==
    /\ video.seeking
    /\ video.src[1].kind = "ok"
    /\ video' = [video EXCEPT !.seeking = FALSE]
    /\ uploads' = [u \in Slots |->
                    IF uploads[u].pc = "awaitSeeked"
                    THEN [uploads[u] EXCEPT !.pc = "awaitPoses"]
                    ELSE uploads[u]]
    /\ UNCHANGED <<call, ret, status, pageResult, selectedKeyFrame, error, framesRef>>

\* detector.estimatePoses resolves: the frame is pushed; the loop seeks to
\* the next instant, or handleFile runs to its end with the analysis
PosesEstimated(u) ==
    /\ uploads[u].pc = "awaitPoses"
    /\ IF uploads[u].k + 1 < uploads[u].frames
       THEN /\ uploads' = [uploads EXCEPT ![u].k = @ + 1, ![u].pc = "awaitSeeked"]
            /\ video' = seek(video)
            /\ UNCHANGED <<status, pageResult, selectedKeyFrame, framesRef>>
       ELSE /\ framesRef' = analysisLength[uploads[u].frames]
            /\ status' = "completed"
            /\ pageResult' = Some(analysisLength[uploads[u].frames])
            /\ selectedKeyFrame' = 0
            /\ uploads' = [uploads EXCEPT ![u] = FreeSlot]
            /\ UNCHANGED video
    /\ UNCHANGED <<call, ret, error>>

\* the button with the result cleared but the status left as it was
ResetAnalysisKeepsStatus ==
    /\ pageResult' = None
    /\ selectedKeyFrame' = 0
    /\ UNCHANGED <<call, ret, status, error, framesRef, video, uploads>>

\* detector.estimatePoses rejects
EstimateFailed(u) ==
    /\ uploads[u].pc = "awaitPoses"
    /\ catch(u, "Analysis failed. Please try a different clip.")
    /\ UNCHANGED <<call, ret, pageResult, selectedKeyFrame, framesRef, video>>

\* the Reset Analysis button
ResetAnalysis ==
    /\ pageResult' = None
    /\ selectedKeyFrame' = 0
    /\ status' = "idle"
    /\ UNCHANGED <<call, ret, error, framesRef, video, uploads>>

\* onTimeUpdate of the <video>: onSeek(nearestIdx), an index of framesRef
TimeUpdate(nearestIdx) ==
    /\ video.src # None
    /\ framesRef # 0
    /\ nearestIdx \in 0..(framesRef - 1)
    /\ selectedKeyFrame' = nearestIdx
    /\ UNCHANGED <<call, ret, status, pageResult, error, framesRef, video, uploads>>

\* the timeline slider, rendered with max = frames.length - 1 while a result is held
SliderChange(value) ==
    /\ pageResult # None
    /\ value \in 0..(pageResult[1] - 1)
    /\ selectedKeyFrame' = value
    /\ UNCHANGED <<call, ret, status, pageResult, error, framesRef, video, uploads>>

UIInit ==
    /\ call = [fn |-> "handleFile"]
    /\ ret = None
    /\ PageMounted(TRUE)

UINext ==
    \/ \E f \in Files : HandleFile(f)
    \/ LoadedMetadata
    \/ VideoError
    \/ \E u \in Slots, context \in BOOLEAN : DetectorLoaded(u, context)
    \/ \E u \in Slots : DetectorFailed(u)
    \/ Seeked
    \/ \E u \in Slots : PosesEstimated(u)
    \/ \E u \in Slots : EstimateFailed(u)
    \/ ResetAnalysis
    \/ \E i \in 0..MaxFrames : TimeUpdate(i)
    \/ \E v \in 0..MaxFrames : SliderChange(v)

\* Media events of a playable clip are delivered and promises settle; the
\* user's own actions (upload, reset, scrubbing) are under no obligation.
UIFairness ==
    /\ WF_vars(LoadedMetadata)
    /\ WF_vars(VideoError)
    /\ WF_vars(Seeked)
    /\ \A u \in Slots :
        /\ WF_vars((\E context \in BOOLEAN : DetectorLoaded(u, context)) \/ DetectorFailed(u))
        /\ WF_vars(PosesEstimated(u) \/ EstimateFailed(u))

UISpec == UIInit /\ [][UINext]_vars /\ UIFairness

\* --------------------------------------------------------------- behaviour
Init ==
    /\ call \in EnrichCalls \cup SmoothCalls \cup MapCalls
    /\ ret = None
    /\ PageMounted(TRUE)

EnrichFrames ==
    /\ call.fn = "enrichFrames"
    /\ ret = None
    /\ ret' = Some(enrichFrames(call.frames))
    /\ UNCHANGED <<call, uiVars>>

SmoothSeries ==
    /\ call.fn = "smoothSeries"
    /\ ret = None
    /\ ret' = Some(smoothSeries(call.series, call.factor))
    /\ UNCHANGED <<call, uiVars>>

MapKeypoints ==
    /\ call.fn = "mapKeypointsToBallPosition"
    /\ ret = None
    /\ ret' = Some(mapKeypointsToBallPosition(call.width, call.height, call.keypoints))
    /\ UNCHANGED <<call, uiVars>>

Next == EnrichFrames \/ SmoothSeries \/ MapKeypoints

Spec == Init /\ [][Next]_vars

\* the call has returned; result is the value it returned
Returned(fn) == call.fn = fn /\ ret # None

result == ret[1]

\* =================================================================== claims
nFrames == length(call.frames)

keyMoments == result.keyMoments

\* C1: for every input of enrichFrames (empty, one frame, several frames)
\* the returned key moments satisfy
\* 0 <= releaseFrame <= pitchFrame <= impactFrame <= frames.length - 1,
\* frames being the returned frame sequence.
C1_KeyMomentsOrdered ==
    Returned("enrichFrames") =>
        /\ 0 <= keyMoments.releaseFrame
        /\ keyMoments.releaseFrame <= keyMoments.pitchFrame
        /\ keyMoments.pitchFrame <= keyMoments.impactFrame
        /\ keyMoments.impactFrame <= length(result.frames) - 1

\* the proportional offset of the pitch frame runs past the last frame
C1_Witness ==
    /\ Returned("enrichFrames")
    /\ nFrames >= 4
    /\ keyMoments.releaseFrame + (nFrames \div 4) > nFrames - 1
    /\ keyMoments.pitchFrame = nFrames - 1

\* C2: for a non-empty input of length N, enrichFrames returns exactly N
\* frames and N trajectory points, in the order of the input, and
\* trajectory[i] equals frames[i].ballPosition for every i.
C2_OnePointPerFrame ==
    Returned("enrichFrames") /\ nFrames >= 1 =>
        /\ length(result.frames) = nFrames
        /\ length(result.trajectory) = nFrames
        /\ \A i \in 0..(nFrames - 1) :
            /\ result.trajectory[i] = result.frames[i].ballPosition
            /\ result.frames[i].time = call.frames[i].time
            /\ result.trajectory[i][1] = call.frames[i].ballPosition[1]
            /\ result.trajectory[i][2] = call.frames[i].ballPosition[2]

C2_Witness ==
    /\ Returned("enrichFrames")
    /\ nFrames >= 3
    /\ \E i, j \in 0..(nFrames - 1) :
        call.frames[i].ballPosition # call.frames[j].ballPosition

\* C3: for an empty input enrichFrames returns the fixed fallback record:
\* one Run-Up frame at [0, 1.5, 0] with seam angle 15, speed 115 and release
\* height 1.86, the one-point trajectory [0, 1.5, 0], key moments 0, 0, 0 and
\* the summary {115, 15, 1.86, 5.4, 24}.
C3_EmptyInputFallback ==
    Returned("enrichFrames") /\ nFrames = 0 =>
        /\ length(result.frames) = 1
        /\ result.frames[0].phase = "Run-Up"
        /\ result.frames[0].time = 0
        /\ result.frames[0].ballPosition[1] = 0
        /\ result.frames[0].ballPosition[2] = 150
        /\ RatEq(result.frames[0].ballPosition[3], Rat(0, 1))
        /\ result.frames[0].seamAngle = FxInt(150, 0)
        /\ result.frames[0].speedKph = FxInt(115, 0)
        /\ result.frames[0].releaseHeight = 186
        /\ length(result.trajectory) = 1
        /\ result.trajectory[0] = result.frames[0].ballPosition
        /\ keyMoments = [releaseFrame |-> 0, pitchFrame |-> 0, impactFrame |-> 0]
        /\ result.summary.releaseSpeedKph = FxInt(115, 0)
        /\ result.summary.seamAngle = FxInt(150, 0)
        /\ result.summary.releaseHeight = 186
        /\ RatEq(result.summary.predictedImpactMeters, Rat(540, 1))
        /\ result.summary.runupVelocityKph = FxInt(24, 0)

C3_Witness == Returned("enrichFrames") /\ nFrames = 0

\* the input of C4: ten frames, one ball position, timestamps 0.0 .. 0.9 s
UniformInput ==
    /\ call.fn = "enrichFrames"
    /\ nFrames = 10
    /\ \A i \in 0..9 :
        /\ call.frames[i].ballPosition = call.frames[0].ballPosition
        /\ call.frames[i].time = i * 100

\* C4 as claimed: on ten frames with one ball position and timestamps
\* 0.0, 0.1, .., 0.9 s every computed per-frame speed is 0 and the release
\* frame is floor(10 * 0.4) = 4.
C4_AsClaimed ==
    Returned("enrichFrames") /\ UniformInput =>
        /\ \A i \in 0..9 : speedsOf(call.frames)[i] = 0
        /\ keyMoments.releaseFrame = 4

\* C4 as amended: on that input the speed of frame 0 is 0 and the speed of
\* every later frame is 80 km/h (the depth assigned to the frames moves the
\* ball 20.12 / 9 m every 0.1 s), the smoothed speed rises with the frame
\* index, and the release frame is the last frame, 9.
C4_UniformSpeeds ==
    Returned("enrichFrames") /\ UniformInput =>
        /\ \A i \in 0..9 : speedsOf(call.frames)[i] = IF i = 0 THEN 0 ELSE 80
        /\ \A i \in 0..8 :
            FxLess(result.frames[i].speedKph, result.frames[i + 1].speedKph)
        /\ keyMoments.releaseFrame = 9

C4_Witness ==
    /\ Returned("enrichFrames")
    /\ UniformInput
    /\ call.frames[0].ballPosition[1] = 90
    /\ call.frames[0].ballPosition[2] = 260

depthAt(i) == result.frames[i].ballPosition[3]

\* C5: for N >= 1 the depth (third component of ballPosition) of the
\* returned frames never decreases with the frame index, the depth of frame
\* 0 is 0, and for N > 1 the depth of frame N - 1 is the pitch length 20.12.
C5_DepthMonotone ==
    Returned("enrichFrames") /\ nFrames >= 1 =>
        /\ RatEq(depthAt(0), Rat(0, 1))
        /\ \A i \in 0..(nFrames - 2) : RatLeq(depthAt(i), depthAt(i + 1))
        /\ nFrames > 1 => RatEq(depthAt(nFrames - 1), Rat(2012, 1))

C5_Witness ==
    /\ Returned("enrichFrames")
    /\ nFrames = 4
    /\ RatEq(depthAt(3), Rat(2012, 1))
    /\ ~RatEq(depthAt(1), depthAt(2))

\* C6: smoothSeries returns a sequence as long as its input whose first
\* element is the input's first element, and with smoothing factor 1 the
\* output is the input, element for element (an empty input gives an empty
\* output).
C6_SmoothSeriesShape ==
    Returned("smoothSeries") =>
        LET n == length(call.series)
        IN  /\ length(result) = n
            /\ n > 0 => result[0] = FxInt(call.series[0], n - 1)
            /\ call.factor = <<1, 1>> =>
                \A i \in 0..(n - 1) : result[i] = FxInt(call.series[i], n - 1)

C6_Witness ==
    /\ Returned("smoothSeries")
    /\ call.factor = <<1, 1>>
    /\ length(call.series) = 3
    /\ call.series[0] # call.series[1]
    /\ call.series[1] # call.series[2]

smoothedAt(i) == result.frames[i].speedKph

\* C7: for a non-empty input summary.releaseSpeedKph is the smoothed speed
\* at releaseFrame when that speed is not zero and 122 otherwise, and
\* summary.runupVelocityKph is the smoothed speed at floor(releaseFrame * 0.5)
\* when that speed is not zero and 22 otherwise; neither is ever 0.
C7_SummarySpeeds ==
    Returned("enrichFrames") /\ nFrames >= 1 =>
        LET atRelease == smoothedAt(keyMoments.releaseFrame)
            atRunup == smoothedAt(keyMoments.releaseFrame \div 2)
        IN  /\ result.summary.releaseSpeedKph =
                    IF FxIsZero(atRelease) THEN FxInt(122, nFrames - 1) ELSE atRelease
            /\ result.summary.runupVelocityKph =
                    IF FxIsZero(atRunup) THEN FxInt(22, nFrames - 1) ELSE atRunup
            /\ ~FxIsZero(result.summary.releaseSpeedKph)
            /\ ~FxIsZero(result.summary.runupVelocityKph)

\* the release frame has speed zero, the run-up frame has not
C7_Witness ==
    /\ Returned("enrichFrames")
    /\ nFrames >= 3
    /\ FxIsZero(smoothedAt(keyMoments.releaseFrame))
    /\ result.summary.releaseSpeedKph = FxInt(122, nFrames - 1)

\* the keypoint the claim of C8 selects: right_wrist, else left_wrist, else
\* the first keypoint; the empty set when there is no keypoint
C8_Chosen ==
    LET kps == call.keypoints
        named(nm) == { i \in DOMAIN kps : kps[i].name = nm }
        first(S) == CHOOSE i \in S : \A j \in S : i <= j
    IN  IF named("right_wrist") # {} THEN { kps[first(named("right_wrist"))] }
        ELSE IF named("left_wrist") # {} THEN { kps[first(named("left_wrist"))] }
        ELSE IF DOMAIN kps # {} THEN { kps[0] }
        ELSE {}

\* C8: mapKeypointsToBallPosition takes right_wrist, else left_wrist, else
\* the first keypoint, else returns the default (0, 1.2, 0); for the chosen
\* point it returns lateral (x / width - 0.5) * 3.6, vertical
\* max(0.4, (1 - y / height) * 2.6) and depth 0.  A lone left_wrist at
\* (640, 360) in a 1280 x 720 frame maps to lateral 0 and vertical 1.3, and
\* the vertical is never below 0.4.
C8_KinematicMapper ==
    Returned("mapKeypointsToBallPosition") =>
        /\ C8_Chosen = {} =>
            /\ RatEq(result[1], Rat(0, 1))
            /\ RatEq(result[2], Rat(120, 1))
        /\ \A kp \in C8_Chosen :
            /\ kp.x # None =>
                \* lateral = (x / width - 0.5) * 3.6 m
                result[1].n * call.width * 10 =
                    (10 * kp.x[1] - 5 * call.width) * 360 * result[1].d
            /\ kp.y # None =>
                \* vertical = max(0.4 m, (1 - y / height) * 2.6 m)
                LET scaled == Rat((call.height - kp.y[1]) * 260, call.height)
                IN  IF RatLeq(scaled, Rat(40, 1)) THEN RatEq(result[2], Rat(40, 1))
                    ELSE RatEq(result[2], scaled)
        /\ RatEq(result[3], Rat(0, 1))
        /\ RatLeq(Rat(40, 1), result[2])
        /\ ( /\ call.width = 1280
             /\ call.height = 720
             /\ length(call.keypoints) = 1
             /\ call.keypoints[0] = [name |-> "left_wrist", x |-> Some(640), y |-> Some(360)] )
            => RatEq(result[1], Rat(0, 1)) /\ RatEq(result[2], Rat(130, 1))

\* a left wrist listed before a right wrist at another place
C8_Witness ==
    /\ Returned("mapKeypointsToBallPosition")
    /\ length(call.keypoints) = 2
    /\ call.keypoints[0] = [name |-> "left_wrist", x |-> Some(640), y |-> Some(360)]
    /\ call.keypoints[1] = [name |-> "right_wrist", x |-> Some(320), y |-> Some(700)]
    /\ RatEq(result[2], Rat(40, 1))

\* C9 as claimed: the running-maximum index starts at floor(N * 0.4) and
\* moves only to a later frame, so for every non-empty input
\* releaseFrame >= floor(N * 0.4).
C9_AsClaimed ==
    Returned("enrichFrames") /\ nFrames >= 1 =>
        keyMoments.releaseFrame >= (nFrames * 4) \div 10

\* C10 as claimed: for every non-empty input no frame before releaseFrame
\* has a smoothed speed equal to the smoothed speed at releaseFrame.
C10_AsClaimed ==
    Returned("enrichFrames") /\ nFrames >= 1 =>
        \A i \in 0..(keyMoments.releaseFrame - 1) :
            smoothedAt(i) # smoothedAt(keyMoments.releaseFrame)

\* C10 as amended: for every non-empty input a frame before releaseFrame
\* has a smoothed speed equal to the smoothed speed at releaseFrame only
\* when releaseFrame is the seed index floor(N * 0.4), which a frame has to
\* exceed strictly to replace; any other releaseFrame is the earliest frame
\* with its smoothed speed.
C10_EarliestUnlessSeed ==
    Returned("enrichFrames") /\ nFrames >= 1 =>
        \A i \in 0..(keyMoments.releaseFrame - 1) :
            smoothedAt(i) = smoothedAt(keyMoments.releaseFrame)
                => keyMoments.releaseFrame = (nFrames * 4) \div 10

\* a frame before the release frame shares its smoothed speed
C10_Witness ==
    /\ Returned("enrichFrames")
    /\ nFrames >= 3
    /\ \E i \in 0..(keyMoments.releaseFrame - 1) :
        smoothedAt(i) = smoothedAt(keyMoments.releaseFrame)

\* the fixed order of the phases
C12_Rank(phase) ==
    CASE phase = "Run-Up" -> 0
      [] phase = "Load-Up" -> 1
      [] phase = "Release" -> 2
      [] phase = "Pitch" -> 3
      [] phase = "Impact" -> 4
      [] phase = "Follow-Through" -> 5

phaseAt(i) == result.frames[i].phase

\* C12: for every non-empty input exactly one returned frame is labelled
\* Release, the frame at releaseFrame; the labels never go back in the order
\* Run-Up, Load-Up, Release, Pitch, Impact, Follow-Through along the frame
\* index; every frame after releaseFrame up to pitchFrame is Pitch, every
\* frame after pitchFrame up to impactFrame is Impact, every frame after
\* impactFrame is Follow-Through.
C12_PhasesInOrder ==
    Returned("enrichFrames") /\ nFrames >= 1 =>
        /\ { i \in 0..(nFrames - 1) : phaseAt(i) = "Release" } = { keyMoments.releaseFrame }
        /\ \A i \in 0..(nFrames - 2) : C12_Rank(phaseAt(i)) <= C12_Rank(phaseAt(i + 1))
        /\ \A i \in 0..(nFrames - 1) :
            /\ (keyMoments.releaseFrame < i /\ i <= keyMoments.pitchFrame) => phaseAt(i) = "Pitch"
            /\ (keyMoments.pitchFrame < i /\ i <= keyMoments.impactFrame) => phaseAt(i) = "Impact"
            /\ keyMoments.impactFrame < i => phaseAt(i) = "Follow-Through"

\* five frames, one of each phase from the Release on, after a Run-Up frame
C12_Witness ==
    /\ Returned("enrichFrames")
    /\ nFrames = 5
    /\ keyMoments = [releaseFrame |-> 1, pitchFrame |-> 2, impactFrame |-> 3]
    /\ { phaseAt(i) : i \in 0..(nFrames - 1) } =
         {"Run-Up", "Release", "Pitch", "Impact", "Follow-Through"}

\* C13: for every non-empty input no returned frame, before or after the
\* seed index floor(N * 0.4), has a smoothed speed strictly greater than the
\* smoothed speed of the frame at releaseFrame.
C13_ReleaseIsMaximum ==
    Returned("enrichFrames") /\ nFrames >= 1 =>
        \A i \in 0..(nFrames - 1) :
            ~FxLess(smoothedAt(keyMoments.releaseFrame), smoothedAt(i))

\* the release frame lies before the seed index and is faster than the
\* frame at the seed index
C13_Witness ==
    /\ Returned("enrichFrames")
    /\ nFrames >= 1
    /\ keyMoments.releaseFrame < (nFrames * 4) \div 10
    /\ FxLess(smoothedAt((nFrames * 4) \div 10), smoothedAt(keyMoments.releaseFrame))

\* ------------------------------------------------------------------- C11
InFlight == \E u \in Slots : uploads[u].pc # "free"

\* C11: once handleFile has set status "loading-model", the status
\* eventually becomes "completed" or "error"; it never stays at
\* "loading-model" or "processing" forever.  A press of Reset Analysis
\* (status "idle") is counted in the claim's favour, so only an upload
\* that never settles refutes it.
C11_AsClaimed ==
    (status = "loading-model") ~> (status \in {"completed", "error", "idle"})

\* ------------------------------------------------------------------- C14
\* C14: under any interleaving of uploads, failures and resets, a page
\* whose status is "completed" holds a result, and while a result is held
\* the selected key frame is an index into result.frames.
C14_ResultAndIndexValid ==
    /\ status = "completed" => pageResult # None
    /\ pageResult # None => selectedKeyFrame \in 0..(pageResult[1] - 1)

\* an analysis completed while another upload is still in flight, and
\* the key frame has been moved off frame 0
C14_Witness ==
    /\ status = "completed"
    /\ pageResult # None
    /\ selectedKeyFrame > 0
    /\ InFlight

====
